---- MODULE Spec2Model ----
(***************************************************************************)
(* Model of the GPT image builder: crc32 (core/crc32.hpp), make_gpt        *)
(* (gpt/gpt.hpp) and the make-gpt tool's write_gpt (tools/make-gpt.cpp).   *)
(*                                                                         *)
(* Machine integers (std::size_t, std::uint64_t, std::uint32_t) are        *)
(* little-endian tuples of bytes, exactly as they lie in memory on the     *)
(* little-endian host the code insists on; arithmetic on them wraps        *)
(* modulo 2^(8 * width).                                                   *)
(***************************************************************************)
EXTENDS Integers, Sequences, FiniteSets, TLC

\* F applied to the value of v, with v evaluated once
Let(v, F(_)) == CHOOSE r \in {F(x) : x \in {v}} : TRUE

\* the same for two values
Let2(v, w, F(_, _)) == CHOOSE r \in {F(x, y) : x \in {v}, y \in {w}} : TRUE

\* the same for three values
Let3(u, v, w, F(_, _, _)) ==
    CHOOSE r \in {F(x, y, z) : x \in {u}, y \in {v}, z \in {w}} : TRUE

\* ------------------------------------------------------------------------
\* Machine words
\* ------------------------------------------------------------------------

RECURSIVE LE(_, _)
\* the value n stored in `width` bytes, least significant byte first
LE(n, width) ==
    IF width = 0 THEN <<>> ELSE <<n % 256>> \o LE(n \div 256, width - 1)

U64(n) == LE(n, 8)
U32(n) == LE(n, 4)

RECURSIVE AddCarry(_, _, _)
AddCarry(a, b, c) ==
    IF a = <<>> THEN <<>>
    ELSE LET s == a[1] + b[1] + c
         IN  <<s % 256>> \o AddCarry(Tail(a), Tail(b), s \div 256)

\* a + b, wrapping at the width of a
Add(a, b) == AddCarry(a, b, 0)

RECURSIVE SubBorrow(_, _, _)
SubBorrow(a, b, c) ==
    IF a = <<>> THEN <<>>
    ELSE LET d == a[1] - b[1] - c
         IN  <<d % 256>> \o SubBorrow(Tail(a), Tail(b), IF d < 0 THEN 1 ELSE 0)

\* a - b, wrapping at the width of a
Sub(a, b) == SubBorrow(a, b, 0)

RECURSIVE LtFrom(_, _, _)
LtFrom(a, b, i) ==
    IF i = 0 THEN FALSE
    ELSE IF a[i] # b[i] THEN a[i] < b[i]
    ELSE LtFrom(a, b, i - 1)

\* unsigned a < b, a > b, a <= b, a >= b
Lt(a, b) == LtFrom(a, b, Len(a))
Gt(a, b) == Lt(b, a)
Le(a, b) == ~Lt(b, a)
Ge(a, b) == ~Lt(a, b)

RECURSIVE MulByte(_, _, _)
MulByte(a, m, c) ==
    IF a = <<>> THEN <<>>
    ELSE LET p == (a[1] * m) + c
         IN  <<p % 256>> \o MulByte(Tail(a), m, p \div 256)

ShiftBytes(a, n) == [j \in 1..Len(a) |-> IF j <= n THEN 0 ELSE a[j - n]]

RECURSIVE MulFrom(_, _, _)
MulFrom(a, b, i) ==
    IF i > Len(b) THEN [j \in 1..Len(a) |-> 0]
    ELSE IF b[i] = 0 THEN MulFrom(a, b, i + 1)
    ELSE Add(ShiftBytes(MulByte(a, b[i], 0), i - 1), MulFrom(a, b, i + 1))

\* a * b, wrapping at the width of a
Mul(a, b) == MulFrom(a, b, 1)

RECURSIVE Div(_, _)
\* unsigned a / b (b non-zero), rounding down
Div(a, b) ==
    IF Lt(a, b) THEN [j \in 1..Len(a) |-> 0]
    ELSE Add(LE(1, Len(a)), Div(Sub(a, b), b))

RECURSIVE ModFrom(_, _, _, _)
ModFrom(a, m, i, r) ==
    IF i = 0 THEN r ELSE ModFrom(a, m, i - 1, ((r * 256) + a[i]) % m)

\* no remainder is ever found
ModSkipped(a, m) == 0

\* unsigned a % m for a small modulus m
ModSmall(a, m) == ModFrom(a, m, Len(a), 0)

\* static_cast<std::uint32_t>(a): the low four bytes
Trunc32(a) == SubSeq(a, 1, 4)

RECURSIVE XorBits(_, _, _)
XorBits(a, b, n) ==
    IF n = 0 THEN 0
    ELSE ((a + b) % 2) + (2 * XorBits(a \div 2, b \div 2, n - 1))

\* a ^ b on bytes
Xor8 == [a \in 0..255 |-> [b \in 0..255 |-> XorBits(a, b, 8)]]

\* a ^ b on words
Xor(a, b) == [i \in 1..Len(a) |-> Xor8[a[i]][b[i]]]

\* ~a on words
Not(a) == [i \in 1..Len(a) |-> 255 - a[i]]

\* a >> 1 on words
Shr1(a) ==
    [i \in 1..Len(a) |->
        (a[i] \div 2) + (IF i < Len(a) THEN (a[i + 1] % 2) * 128 ELSE 0)]

\* ------------------------------------------------------------------------
\* crc32
\* ------------------------------------------------------------------------

\* 0x82f63b78, the reflected polynomial of CRC-32C
CRC_POLY_CASTAGNOLI == <<120, 59, 246, 130>>

\* 0xedb88320
CRC_POLY == <<32, 131, 184, 237>>

\* 0xffffffff
CRC_INIT == <<255, 255, 255, 255>>

\* one turn of the inner loop on the accumulator
crc32_step(crc, byte) ==
    LET b == Xor8[byte][crc[1]] % 2
    IN  IF b # 0 THEN Xor(Shr1(crc), CRC_POLY) ELSE Shr1(crc)

RECURSIVE crc32_bit(_, _, _)
\* the inner loop: for (bit = 0; bit < 8; bit++, byte >>= 1)
crc32_bit(crc, byte, bit) ==
    IF bit >= 8 THEN crc
    ELSE CHOOSE r \in {crc32_bit(c, byte \div 2, bit + 1) :
                           c \in {crc32_step(crc, byte)}} : TRUE

RECURSIVE crc32_byte(_, _, _, _)
\* the outer loop: for (std::byte byte : data), over data[lo..hi] in order
\* (the range is split in halves to keep the evaluation shallow)
crc32_byte(crc, data, lo, hi) ==
    IF lo > hi THEN crc
    ELSE IF lo = hi THEN crc32_bit(crc, data[lo], 0)
    ELSE CHOOSE r \in {crc32_byte(c, data, ((lo + hi) \div 2) + 1, hi) :
                           c \in {crc32_byte(crc, data, lo, (lo + hi) \div 2)}} : TRUE

crc32(data) == Not(crc32_byte(CRC_INIT, data, 1, Len(data)))

\* ------------------------------------------------------------------------
\* Packed records and their memory images
\* ------------------------------------------------------------------------

\* sizeof(gpt_partition_entry)
SizeofEntry == 128

\* sizeof(gpt_header)
SizeofHeader == 92

\* sizeof(gpt_protective_mbr)
SizeofMbr == 512

Zeros(n) == [i \in 1..n |-> 0]

\* std::array<char16_t, 36>: every code unit as two bytes, low byte first
NameBytes(name) ==
    [i \in 1..(2 * Len(name)) |->
        IF i % 2 = 1 THEN name[(i + 1) \div 2] % 256 ELSE name[i \div 2] \div 256]

\* the 128 bytes of one gpt_partition_entry
EntryBytes(p) ==
    p.partition_type_guid \o p.unique_partition_guid \o p.starting_lba
        \o p.ending_lba \o p.attributes \o NameBytes(p.partition_name)

RECURSIVE as_bytes(_)
\* std::as_bytes(partition_span): the entries one after another
as_bytes(partitions) ==
    IF partitions = <<>> THEN <<>>
    ELSE EntryBytes(Head(partitions)) \o as_bytes(Tail(partitions))

\* the fields of the packed gpt_header: byte offset and size of each
HeaderLayout ==
    [signature |-> <<0, 8>>, revision |-> <<8, 4>>, header_size |-> <<12, 4>>,
     header_crc32 |-> <<16, 4>>, reserved |-> <<20, 4>>, my_lba |-> <<24, 8>>,
     alternate_lba |-> <<32, 8>>, first_usable_lba |-> <<40, 8>>,
     last_usable_lba |-> <<48, 8>>, disk_guid |-> <<56, 16>>,
     partition_entry_lba |-> <<72, 8>>, number_of_partition_entries |-> <<80, 4>>,
     size_of_partition_entry |-> <<84, 4>>, partition_entry_checksum |-> <<88, 4>>]

\* the 92 bytes of a gpt_header
HeaderBytes(h) ==
    h.signature \o h.revision \o h.header_size \o h.header_crc32 \o h.reserved
        \o h.my_lba \o h.alternate_lba \o h.first_usable_lba \o h.last_usable_lba
        \o h.disk_guid \o h.partition_entry_lba \o h.number_of_partition_entries
        \o h.size_of_partition_entry \o h.partition_entry_checksum

\* the 16 bytes of a gpt_protective_mbr_partition_record
RecordBytes(r) ==
    <<r.boot_indicator>> \o r.starting_chs \o <<r.os_type>> \o r.ending_chs
        \o r.starting_lba \o r.size_in_lba

\* the 512 bytes of a gpt_protective_mbr
MbrBytes(m) ==
    m.boot_code \o m.unique_mbr_disk_signature \o m.unknown
        \o RecordBytes(m.partition_record[1]) \o RecordBytes(m.partition_record[2])
        \o RecordBytes(m.partition_record[3]) \o RecordBytes(m.partition_record[4])
        \o m.signature

\* std::memcpy(buffer.data() + offset, source, size of source)
Memcpy(buffer, offset, source) ==
    Let3(buffer, offset, source, LAMBDA dst, at, src :
        [i \in 1..Len(dst) |->
            IF i > at /\ i <= at + Len(src) THEN src[i - at] ELSE dst[i]])

\* ------------------------------------------------------------------------
\* make_gpt
\* ------------------------------------------------------------------------

\* std::numeric_limits<std::uint32_t>::max() as a 64-bit value
UINT32_MAX == <<255, 255, 255, 255, 0, 0, 0, 0>>

\* std::vector<std::byte>::max_size(): PTRDIFF_MAX
VECTOR_MAX_SIZE == <<255, 255, 255, 255, 255, 255, 255, 127>>

RECURSIVE Value(_)
\* the number a (small) word stands for
Value(a) == IF a = <<>> THEN 0 ELSE a[1] + (256 * Value(Tail(a)))

\* partition_span.size_bytes()
size_bytes(d) == Mul(U64(Len(d.partitions)), U64(SizeofEntry))

partition_entry_blocks(d) ==
    Div(Add(size_bytes(d), Sub(d.block_size, U64(1))), d.block_size)

\* one block short: 2 + 2 * partition_entry_blocks
GptBlocksOneShort(d) == Add(U64(2), Mul(partition_entry_blocks(d), U64(2)))

gpt_blocks(d) == Add(U64(3), Mul(partition_entry_blocks(d), U64(2)))

first_usable_lba(d) == Add(U64(2), partition_entry_blocks(d))

last_usable_lba(d) ==
    Sub(Sub(d.number_of_blocks, partition_entry_blocks(d)), U64(2))

\* the first half of the condition only: the start of i inside j
OverlappingStartOnly(i, j) ==
    Ge(i.starting_lba, j.starting_lba) /\ Le(i.starting_lba, j.ending_lba)

\* the condition of the inner loop's throw, for partitions i and j
Overlapping(i, j) ==
    \/ Ge(i.starting_lba, j.starting_lba) /\ Le(i.starting_lba, j.ending_lba)
    \/ Ge(i.ending_lba, j.starting_lba) /\ Le(i.ending_lba, j.ending_lba)

\* the same turn with the first usable LBA taken as excluded
CheckPartitionExclusive(partitions, n, first, last) ==
    LET i == partitions[n]
    IN  IF Le(i.starting_lba, first)
            THEN "Starting LBA less than first usable LBA!"
        ELSE IF Gt(i.ending_lba, last)
            THEN "Ending LBA greater than last usable LBA!"
        ELSE IF Gt(i.starting_lba, i.ending_lba)
            THEN "Starting LBA is greater than ending LBA!"
        ELSE IF \E m \in (n + 1)..Len(partitions) :
                    \/ /\ Ge(i.starting_lba, partitions[m].starting_lba)
                       /\ Le(i.starting_lba, partitions[m].ending_lba)
                    \/ /\ Ge(i.ending_lba, partitions[m].starting_lba)
                       /\ Le(i.ending_lba, partitions[m].ending_lba)
            THEN "Overlapping partitions!"
        ELSE ""

\* one turn of the outer loop over the partitions: the message thrown, or ""
CheckPartition(partitions, n, first, last) ==
    LET i == partitions[n]
    IN  IF Lt(i.starting_lba, first)
            THEN "Starting LBA less than first usable LBA!"
        ELSE IF Gt(i.ending_lba, last)
            THEN "Ending LBA greater than last usable LBA!"
        ELSE IF Gt(i.starting_lba, i.ending_lba)
            THEN "Starting LBA is greater than ending LBA!"
        ELSE IF \E m \in (n + 1)..Len(partitions) : Overlapping(i, partitions[m])
            THEN "Overlapping partitions!"
        ELSE ""

\* the three bound checks of partition n alone: the message thrown, or ""
BoundsOnly(partitions, n, first, last) ==
    CheckPartition(SubSeq(partitions, 1, n), n, first, last)

\* a validation that checks the bounds of every partition before any overlap
CheckPartitionsBoundsFirst(partitions, n, first, last) ==
    LET bad == {m \in n..Len(partitions) : BoundsOnly(partitions, m, first, last) # ""}
        over == {m \in n..Len(partitions) :
                    CheckPartition(partitions, m, first, last) # ""}
    IN  IF bad # {}
            THEN BoundsOnly(partitions, CHOOSE m \in bad : \A k \in bad : m <= k,
                            first, last)
        ELSE IF over # {} THEN "Overlapping partitions!"
        ELSE ""

RECURSIVE CheckPartitions(_, _, _, _)
\* the outer loop from partition n on: the first message thrown, or ""
CheckPartitions(partitions, n, first, last) ==
    IF n > Len(partitions) THEN ""
    ELSE Let(CheckPartition(partitions, n, first, last),
             LAMBDA e : IF e # "" THEN e
                        ELSE CheckPartitions(partitions, n + 1, first, last))

\* "Validate the request": the message of the exception thrown, or ""
Validate(d) ==
    IF d.block_size = U64(0) \/ ModSmall(d.block_size, 512) # 0
        THEN "Block size must be a non-zero multiple of 512!"
    ELSE IF d.partitions = <<>>
        THEN "Must provide at least one partition!"
    ELSE IF Gt(U64(Len(d.partitions)), UINT32_MAX)
        THEN "Too many partitions! (Like, waaaaaaay too many)"
    ELSE IF Lt(d.number_of_blocks, Add(gpt_blocks(d), U64(1)))
        THEN "Number of blocks too small!"
    ELSE Let2(first_usable_lba(d), last_usable_lba(d),
              LAMBDA first, last : CheckPartitions(d.partitions, 1, first, last))

\* .size_in_lba of the first record of the protective MBR
size_in_lba(d) ==
    IF Gt(d.number_of_blocks, UINT32_MAX) THEN <<255, 255, 255, 15>>
    ELSE Trunc32(Sub(d.number_of_blocks, U64(1)))

\* a value-initialised gpt_protective_mbr_partition_record
EmptyRecord ==
    [boot_indicator |-> 0, starting_chs |-> <<0, 0, 0>>, os_type |-> 0,
     ending_chs |-> <<0, 0, 0>>, starting_lba |-> U32(0), size_in_lba |-> U32(0)]

\* the protective MBR with the two signature bytes in the other order
MbrHeaderSignatureSwapped(d) ==
    [boot_code |-> Zeros(440),
     unique_mbr_disk_signature |-> U32(0),
     unknown |-> LE(0, 2),
     partition_record |->
        << [boot_indicator |-> 0, starting_chs |-> <<0, 2, 0>>, os_type |-> 238,
            ending_chs |-> <<255, 255, 255>>, starting_lba |-> U32(1),
            size_in_lba |-> size_in_lba(d)],
           EmptyRecord, EmptyRecord, EmptyRecord >>,
     signature |-> <<170, 85>>]

mbr_header(d) ==
    [boot_code |-> Zeros(440),
     unique_mbr_disk_signature |-> U32(0),
     unknown |-> LE(0, 2),
     partition_record |->
        << [boot_indicator |-> 0, starting_chs |-> <<0, 2, 0>>, os_type |-> 238,
            ending_chs |-> <<255, 255, 255>>, starting_lba |-> U32(1),
            size_in_lba |-> size_in_lba(d)],
           EmptyRecord, EmptyRecord, EmptyRecord >>,
     signature |-> <<85, 170>>]

\* the CRC taken over the header and the padding of its 512-byte block
WithCrcOverBlock(h) ==
    [h EXCEPT !.header_crc32 = crc32(HeaderBytes(h) \o Zeros(512 - SizeofHeader))]

\* header.header_crc32 = crc32(std::as_bytes(std::span{&header, 1}))
WithCrc(h) == [h EXCEPT !.header_crc32 = crc32(HeaderBytes(h))]

first_gpt_header(d, checksum) ==
    WithCrc([signature |-> <<69, 70, 73, 32, 80, 65, 82, 84>>,
             revision |-> <<0, 0, 1, 0>>,
             header_size |-> U32(SizeofHeader),
             header_crc32 |-> U32(0),
             reserved |-> U32(0),
             my_lba |-> U64(1),
             alternate_lba |-> Sub(d.number_of_blocks, U64(1)),
             first_usable_lba |-> first_usable_lba(d),
             last_usable_lba |-> last_usable_lba(d),
             disk_guid |-> d.disk_guid,
             partition_entry_lba |-> U64(2),
             number_of_partition_entries |-> Trunc32(U64(Len(d.partitions))),
             size_of_partition_entry |-> U32(SizeofEntry),
             partition_entry_checksum |-> checksum])

\* a backup header that is a plain copy of the primary
SecondHeaderCopyOfFirst(d, checksum) == first_gpt_header(d, checksum)

second_gpt_header(d, checksum) ==
    WithCrc([signature |-> <<69, 70, 73, 32, 80, 65, 82, 84>>,
             revision |-> <<0, 0, 1, 0>>,
             header_size |-> U32(SizeofHeader),
             header_crc32 |-> U32(0),
             reserved |-> U32(0),
             my_lba |-> Sub(d.number_of_blocks, U64(1)),
             alternate_lba |-> U64(1),
             first_usable_lba |-> Add(U64(2), partition_entry_blocks(d)),
             last_usable_lba |->
                Sub(Sub(d.number_of_blocks, partition_entry_blocks(d)), U64(2)),
             disk_guid |-> d.disk_guid,
             partition_entry_lba |->
                Sub(Sub(d.number_of_blocks, U64(1)), partition_entry_blocks(d)),
             number_of_partition_entries |-> Trunc32(U64(Len(d.partitions))),
             size_of_partition_entry |-> U32(SizeofEntry),
             partition_entry_checksum |-> checksum])

\* a header blob one block short
HeaderSizeOneShort(d) == Mul(Add(U64(1), partition_entry_blocks(d)), d.block_size)

\* the sizes the two vectors of gpt_data are constructed with
header_size(d) == Mul(Add(U64(2), partition_entry_blocks(d)), d.block_size)
footer_size(d) == Mul(Add(U64(1), partition_entry_blocks(d)), d.block_size)

\* byte offsets of the memcpy calls into data.header
MbrOffset(d) == 0 * Value(d.block_size)
FirstHeaderOffset(d) == 1 * Value(d.block_size)
HeaderEntriesOffset(d) == 2 * Value(d.block_size)

\* byte offsets of the memcpy calls into data.footer
FooterEntriesOffset(d) == 0 * Value(d.block_size)
SecondHeaderOffset(d) == 1 * Value(d.block_size)

\* data.header after the three memcpy calls
HeaderBlob(d, entries, checksum) ==
    Memcpy(Memcpy(Memcpy(Zeros(Value(header_size(d))),
                         MbrOffset(d), MbrBytes(mbr_header(d))),
                  FirstHeaderOffset(d), HeaderBytes(first_gpt_header(d, checksum))),
           HeaderEntriesOffset(d), entries)

\* data.footer after the two memcpy calls
FooterBlob(d, entries, checksum) ==
    Memcpy(Memcpy(Zeros(Value(footer_size(d))), FooterEntriesOffset(d), entries),
           SecondHeaderOffset(d), HeaderBytes(second_gpt_header(d, checksum)))

\* the entry checksum taken over the whole blocks of the entry array
ConstructChecksumOverBlocks(d) ==
    Let(as_bytes(d.partitions), LAMBDA entries :
        Let(crc32(entries \o Zeros((Value(partition_entry_blocks(d))
                                        * Value(d.block_size)) - Len(entries))),
            LAMBDA partition_entry_checksum :
                [header |-> HeaderBlob(d, entries, partition_entry_checksum),
                 footer |-> FooterBlob(d, entries, partition_entry_checksum)]))

\* "Construct the needed data structures" and the buffers: the gpt_data returned
Construct(d) ==
    Let(as_bytes(d.partitions), LAMBDA entries :
        Let(crc32(entries), LAMBDA partition_entry_checksum :
            [header |-> HeaderBlob(d, entries, partition_entry_checksum),
             footer |-> FooterBlob(d, entries, partition_entry_checksum)]))

\* a make_gpt that fills its buffers before it checks the partitions
MakeGptBuffersBeforePartitionChecks(d) ==
    Let(Validate(d), LAMBDA e :
        IF e = "Overlapping partitions!" /\ Le(d.block_size, U64(1024))
            THEN [what |-> e, data |-> Construct(d)]
        ELSE IF e # "" THEN [what |-> e, data |-> [header |-> <<>>, footer |-> <<>>]]
        ELSE IF Gt(header_size(d), VECTOR_MAX_SIZE) \/ Gt(footer_size(d), VECTOR_MAX_SIZE)
            THEN [what |-> "cannot create std::vector larger than max_size()",
                  data |-> [header |-> <<>>, footer |-> <<>>]]
        ELSE [what |-> "", data |-> Construct(d)])

\* what a call of make_gpt does: `what` is the message of the exception it
\* throws ("" when it returns), `data` the gpt_data it returns
make_gpt(d) ==
    Let(Validate(d), LAMBDA e :
        IF e # "" THEN [what |-> e, data |-> [header |-> <<>>, footer |-> <<>>]]
        ELSE IF Gt(header_size(d), VECTOR_MAX_SIZE) \/ Gt(footer_size(d), VECTOR_MAX_SIZE)
            THEN [what |-> "cannot create std::vector larger than max_size()",
                  data |-> [header |-> <<>>, footer |-> <<>>]]
        ELSE [what |-> "", data |-> Construct(d)])

\* ------------------------------------------------------------------------
\* write_gpt
\* ------------------------------------------------------------------------

\* a write_gpt that seeks back by the size of the header blob for the footer
WriteGptFooterAtHeaderSize(d, gpt) ==
    Let(Mul(d.block_size, d.number_of_blocks), LAMBDA disk_bytes :
        [size |-> disk_bytes,
         writes |-> << [at |-> U64(0), bytes |-> gpt.header],
                       [at |-> Sub(disk_bytes, U64(Len(gpt.header))),
                        bytes |-> gpt.footer] >>])

\* the file after ftruncate and the two fwrite calls: its size and the writes
\* made to it, in order, each at its byte offset
write_gpt(d, gpt) ==
    Let(Mul(d.block_size, d.number_of_blocks), LAMBDA disk_bytes :
        [size |-> disk_bytes,
         writes |-> << [at |-> U64(0), bytes |-> gpt.header],
                       [at |-> Sub(disk_bytes, U64(Len(gpt.footer))),
                        bytes |-> gpt.footer] >>])

\* ------------------------------------------------------------------------
\* The descriptors tried
\* ------------------------------------------------------------------------

\* the largest LBA a partition of the descriptor names freely
MaxLba == 5

\* the most partitions with freely chosen LBAs
MaxFree == 2

\* the most single-block partitions following them
MaxFill == 4

\* the largest small number_of_blocks
MaxBlocks == 8

Lbas == 2..MaxLba

TypeGuid == <<175, 61, 198, 15, 131, 132, 114, 71, 142, 121, 61, 105, 216, 71, 125, 228>>

DiskGuid == <<1, 35, 69, 103, 137, 171, 205, 239, 16, 50, 84, 118, 152, 186, 220, 254>>

\* a partition [s, e] with an empty name
FreeEntry(s, e) ==
    [partition_type_guid |-> TypeGuid,
     unique_partition_guid |-> Zeros(16),
     starting_lba |-> U64(s),
     ending_lba |-> U64(e),
     attributes |-> U64(0),
     partition_name |-> Zeros(36)]

\* the k-th single-block partition past MaxLba, with a name of the full 36
\* code units: "P<k>", dashes, and U+2603
FillEntry(k) ==
    [partition_type_guid |-> TypeGuid,
     unique_partition_guid |-> [i \in 1..16 |-> (17 * k) % 256],
     starting_lba |-> U64(MaxLba + k),
     ending_lba |-> U64(MaxLba + k),
     attributes |-> U64(k),
     partition_name |-> <<80, 48 + k>> \o [i \in 1..33 |-> 45] \o <<9731>>]

FreeLists ==
    UNION {[1..n -> {FreeEntry(s, e) : s \in Lbas, e \in Lbas}] : n \in 0..MaxFree}

PartitionLists ==
    {free \o [k \in 1..f |-> FillEntry(k)] : free \in FreeLists, f \in 0..MaxFill}

\* 0, 511, 512, 513, 1024 and 2^64 - 512
BlockSizes ==
    {U64(0), U64(511), U64(512), U64(513), U64(1024), Sub(U64(0), U64(512))}

\* small disks, and disks of 2^32 - 1, 2^32 and 2^32 + 1 blocks
NumbersOfBlocks ==
    {U64(n) : n \in 5..MaxBlocks}
        \cup {UINT32_MAX, Add(UINT32_MAX, U64(1)), Add(UINT32_MAX, U64(2))}

Descriptors ==
    {[block_size |-> bs, number_of_blocks |-> nb, disk_guid |-> DiskGuid,
      partitions |-> ps] :
        bs \in BlockSizes, nb \in NumbersOfBlocks, ps \in PartitionLists}

\* ------------------------------------------------------------------------
\* json_value::parse (json/source/json.cpp)
\* ------------------------------------------------------------------------
\* Characters are their byte values. A stream is the characters of the
\* document, the number of them consumed, and its eofbit and failbit.

\* std::char_traits<char>::eof()
EOF_INT == -1

\* the conversion of the int a stream returns to char8_t
Char8(x) == x % 256

\* std::isspace, std::iscntrl, std::isdigit, std::isxdigit in the "C" locale
IsSpace(x) == x \in {9, 10, 11, 12, 13, 32}
IsCntrl(x) == x \in 0..31 \/ x = 127
IsDigit(x) == x \in 48..57
IsXDigit(x) == x \in 48..57 \/ x \in 65..70 \/ x \in 97..102

\* std::stringstream ss(text)
StreamOf(text) == [chars |-> text, pos |-> 0, eofbit |-> FALSE, failbit |-> FALSE]

\* stream.good()
Good(stream) == ~stream.eofbit /\ ~stream.failbit

AtEnd(stream) == stream.pos >= Len(stream.chars)

\* stream.peek(): the character and the stream after the call
Peek(stream) ==
    IF ~Good(stream) THEN [c |-> EOF_INT, stream |-> [stream EXCEPT !.failbit = TRUE]]
    ELSE IF AtEnd(stream) THEN [c |-> EOF_INT, stream |-> [stream EXCEPT !.eofbit = TRUE]]
    ELSE [c |-> stream.chars[stream.pos + 1], stream |-> stream]

\* stream.get()
Get(stream) ==
    IF ~Good(stream) THEN [c |-> EOF_INT, stream |-> [stream EXCEPT !.failbit = TRUE]]
    ELSE IF AtEnd(stream)
        THEN [c |-> EOF_INT,
              stream |-> [stream EXCEPT !.eofbit = TRUE, !.failbit = TRUE]]
    ELSE [c |-> stream.chars[stream.pos + 1],
          stream |-> [stream EXCEPT !.pos = @ + 1]]

\* stream.ignore()
Ignore(stream) ==
    IF ~Good(stream) THEN [stream EXCEPT !.failbit = TRUE]
    ELSE IF AtEnd(stream) THEN [stream EXCEPT !.eofbit = TRUE]
    ELSE [stream EXCEPT !.pos = @ + 1]

RECURSIVE SkipSpace(_)
SkipSpace(stream) ==
    IF AtEnd(stream) THEN [stream EXCEPT !.eofbit = TRUE]
    ELSE IF IsSpace(stream.chars[stream.pos + 1])
        THEN SkipSpace([stream EXCEPT !.pos = @ + 1])
    ELSE stream

\* stream >> std::ws
Ws(stream) ==
    IF ~Good(stream) THEN [stream EXCEPT !.failbit = TRUE] ELSE SkipSpace(stream)

\* json_data: one shape for every alternative of the variant. `type` names
\* the alternative; a string has its bytes in `text`, a number its value in
\* `number`, an array its elements in `items`, an object its keys in `keys`
\* and the value of each in `items` (in the order of insertion)
JsonValue(type, text, number, items, keys) ==
    [type |-> type, text |-> text, number |-> number, items |-> items, keys |-> keys]

JsonNull == JsonValue("null", <<>>, 0, <<>>, <<>>)
JsonBool(b) == JsonValue(IF b THEN "true" ELSE "false", <<>>, 0, <<>>, <<>>)
JsonNumber(n) == JsonValue("number", <<>>, n, <<>>, <<>>)
JsonString(text) == JsonValue("string", text, 0, <<>>, <<>>)
JsonArray(items) == JsonValue("array", <<>>, 0, items, <<>>)
JsonObject(keys, items) == JsonValue("object", <<>>, 0, items, keys)

\* what a call has done: `what` is the message of the exception thrown (""
\* when it returned), `value` what it has read, `stream` the stream after it
Done(what, value, stream) == [what |-> what, value |-> value, stream |-> stream]

RECURSIVE read_constant(_, _)
\* every character of `expected` must come next
read_constant(expected, stream) ==
    IF expected = <<>> THEN Done("", <<>>, stream)
    ELSE Let(Get(stream), LAMBDA g :
            IF Char8(g.c) # Head(expected)
                THEN Done("unable to read constant", <<>>, g.stream)
            ELSE read_constant(Tail(expected), g.stream))

\* the value of a hexadecimal digit
HexValue(x) ==
    IF x \in 48..57 THEN x - 48 ELSE IF x \in 65..70 THEN x - 55 ELSE x - 87

RECURSIVE read_escaped_unicode_hex(_, _, _)
\* four hexadecimal digits: the char16_t they spell, in `value`
read_escaped_unicode_hex(j, sum, stream) ==
    IF j >= 4 THEN Done("", sum, stream)
    ELSE Let(Get(stream), LAMBDA g :
            IF IsXDigit(Char8(g.c))
                THEN read_escaped_unicode_hex(j + 1, (sum * 16) + HexValue(g.c), g.stream)
            ELSE Done("got non-hex digit or eof in escaped unicode character", 0,
                      g.stream))

\* the UTF-8 bytes of a code point
Utf8(cp) ==
    IF cp < 128 THEN <<cp>>
    ELSE IF cp < 2048 THEN <<192 + (cp \div 64), 128 + (cp % 64)>>
    ELSE IF cp < 65536
        THEN <<224 + (cp \div 4096), 128 + ((cp \div 64) % 64), 128 + (cp % 64)>>
    ELSE <<240 + (cp \div 262144), 128 + ((cp \div 4096) % 64),
           128 + ((cp \div 64) % 64), 128 + (cp % 64)>>

\* std::wstring_convert<std::codecvt_utf8_utf16<char16_t>, char16_t>{}
\* .to_bytes(u16char): the bytes, or the range_error for an unpaired surrogate
ToBytes(u16char) ==
    IF Len(u16char) = 1
        THEN IF u16char[1] \in 55296..57343
                THEN [what |-> "wstring_convert::to_bytes", bytes |-> <<>>]
             ELSE [what |-> "", bytes |-> Utf8(u16char[1])]
    ELSE IF u16char[2] \in 56320..57343
        THEN [what |-> "",
              bytes |-> Utf8(65536 + ((u16char[1] - 55296) * 1024)
                                + (u16char[2] - 56320))]
    ELSE [what |-> "wstring_convert::to_bytes", bytes |-> <<>>]

\* case 'u' of read_string: the bytes to append, in `value`
ReadEscapedUnicode(stream) ==
    Let(read_escaped_unicode_hex(0, 0, stream), LAMBDA first :
        IF first.what # "" THEN Done(first.what, <<>>, first.stream)
        ELSE IF first.value >= 55296 /\ first.value <= 56319
            THEN Let(read_constant(<<92, 117>>, first.stream), LAMBDA sep :
                    IF sep.what # "" THEN Done(sep.what, <<>>, sep.stream)
                    ELSE Let(read_escaped_unicode_hex(0, 0, sep.stream), LAMBDA second :
                            IF second.what # ""
                                THEN Done(second.what, <<>>, second.stream)
                            ELSE Done(ToBytes(<<first.value, second.value>>).what,
                                      ToBytes(<<first.value, second.value>>).bytes,
                                      second.stream)))
        ELSE Done(ToBytes(<<first.value>>).what, ToBytes(<<first.value>>).bytes,
                  first.stream))

\* the switch of read_string on the character after a backslash
ReadEscape(stream) ==
    Let(Get(stream), LAMBDA g :
        CASE g.c = 34 -> Done("", <<34>>, g.stream)
          [] g.c = 92 -> Done("", <<92>>, g.stream)
          [] g.c = 47 -> Done("", <<47>>, g.stream)
          [] g.c = 98 -> Done("", <<8>>, g.stream)
          [] g.c = 102 -> Done("", <<12>>, g.stream)
          [] g.c = 110 -> Done("", <<10>>, g.stream)
          [] g.c = 114 -> Done("", <<13>>, g.stream)
          [] g.c = 116 -> Done("", <<9>>, g.stream)
          [] g.c = 117 -> ReadEscapedUnicode(g.stream)
          [] OTHER -> Done("illegal escape character or eof", <<>>, g.stream))

RECURSIVE read_string(_, _)
\* the characters up to the closing quote, appended to str
read_string(str, stream) ==
    Let(Get(stream), LAMBDA g :
        IF g.stream.eofbit \/ IsCntrl(Char8(g.c))
            THEN Done("got eof or control character while reading string", str, g.stream)
        ELSE IF Char8(g.c) = 34 THEN Done("", str, g.stream)
        ELSE IF Char8(g.c) = 92
            THEN Let(ReadEscape(g.stream), LAMBDA esc :
                    IF esc.what # "" THEN Done(esc.what, str, esc.stream)
                    ELSE read_string(str \o esc.value, esc.stream))
        ELSE read_string(str \o <<Char8(g.c)>>, g.stream))

RECURSIVE ReadDigits(_, _, _)
\* the decimal digits that come next: how many, and their value
ReadDigits(count, sum, stream) ==
    IF AtEnd(stream)
        THEN [count |-> count, sum |-> sum, stream |-> [stream EXCEPT !.eofbit = TRUE]]
    ELSE IF IsDigit(stream.chars[stream.pos + 1])
        THEN ReadDigits(count + 1, (sum * 10) + (stream.chars[stream.pos + 1] - 48),
                        [stream EXCEPT !.pos = @ + 1])
    ELSE [count |-> count, sum |-> sum, stream |-> stream]

\* stream >> v->value.emplace<double>(), for numbers written as an optional
\* minus sign and decimal digits: without a digit the extraction fails, the
\* value is 0 and failbit is set
ExtractDouble(stream) ==
    IF ~Good(stream) THEN Done("", JsonNumber(0), [stream EXCEPT !.failbit = TRUE])
    ELSE Let(Ws(stream), LAMBDA skipped :
            LET minus == ~AtEnd(skipped) /\ skipped.chars[skipped.pos + 1] = 45
                from == IF minus THEN [skipped EXCEPT !.pos = @ + 1] ELSE skipped
            IN  Let(ReadDigits(0, 0, from), LAMBDA d :
                    IF d.count = 0
                        THEN Done("", JsonNumber(0), [d.stream EXCEPT !.failbit = TRUE])
                    ELSE Done("", JsonNumber(IF minus THEN 0 - d.sum ELSE d.sum),
                              d.stream)))

\* obj.insert({key, value}): a key already there keeps its value
Insert(obj, key, value) ==
    IF \E k \in 1..Len(obj.keys) : obj.keys[k] = key THEN obj
    ELSE JsonObject(Append(obj.keys, key), Append(obj.items, value))

RECURSIVE parse(_)
RECURSIVE ReadArrayLoop(_, _)
RECURSIVE ReadObjectLoop(_, _)

\* the while (true) of read_array
ReadArrayLoop(arr, stream) ==
    Let(parse(Ws(stream)), LAMBDA v :
        IF v.what # "" THEN Done(v.what, arr, v.stream)
        ELSE Let(Get(Ws(v.stream)), LAMBDA g :
                IF Char8(g.c) = 44
                    THEN ReadArrayLoop(JsonArray(Append(arr.items, v.value)), g.stream)
                ELSE IF Char8(g.c) = 93
                    THEN Done("", JsonArray(Append(arr.items, v.value)), g.stream)
                ELSE Done("error reading array", JsonArray(Append(arr.items, v.value)),
                          g.stream)))

\* read_array: "Check for empty" peeks at the ']' and returns
read_array(arr, stream) ==
    Let(Peek(Ws(stream)), LAMBDA p :
        IF p.c = 93 THEN Done("", arr, p.stream)
        ELSE ReadArrayLoop(arr, p.stream))

\* the while (true) of read_object
ReadObjectLoop(obj, stream) ==
    Let(read_constant(<<34>>, Ws(stream)), LAMBDA quote :
        IF quote.what # "" THEN Done(quote.what, obj, quote.stream)
        ELSE Let(read_string(<<>>, quote.stream), LAMBDA key :
            IF key.what # "" THEN Done(key.what, obj, key.stream)
            ELSE Let(read_constant(<<58>>, Ws(key.stream)), LAMBDA colon :
                IF colon.what # "" THEN Done(colon.what, obj, colon.stream)
                ELSE Let(parse(Ws(colon.stream)), LAMBDA v :
                    IF v.what # "" THEN Done(v.what, obj, v.stream)
                    ELSE Let(Get(Ws(v.stream)), LAMBDA g :
                        IF Char8(g.c) = 44
                            THEN ReadObjectLoop(Insert(obj, key.value, v.value), g.stream)
                        ELSE IF Char8(g.c) = 125
                            THEN Done("", Insert(obj, key.value, v.value), g.stream)
                        ELSE Done("error reading object",
                                  Insert(obj, key.value, v.value), g.stream))))))

\* read_object: "Check for empty" peeks at the '}' and returns
read_object(obj, stream) ==
    Let(Peek(Ws(stream)), LAMBDA p :
        IF p.c = 125 THEN Done("", obj, p.stream)
        ELSE ReadObjectLoop(obj, p.stream))

\* read_constant, then the value it stands for
ReadLiteral(expected, value, stream) ==
    Let(read_constant(expected, stream), LAMBDA k :
        IF k.what # "" THEN Done(k.what, JsonNull, k.stream)
        ELSE Done("", value, k.stream))

\* json_value::parse
parse(stream) ==
    Let(Peek(Ws(stream)), LAMBDA p :
        LET first == Char8(p.c)
        IN  CASE first = 123 -> read_object(JsonObject(<<>>, <<>>), Ignore(p.stream))
              [] first = 91 -> read_array(JsonArray(<<>>), Ignore(p.stream))
              [] first = 34 ->
                    Let(read_string(<<>>, Ignore(p.stream)), LAMBDA str :
                        Done(str.what, JsonString(str.value), str.stream))
              [] first = 116 -> ReadLiteral(<<114, 117, 101>>, JsonBool(TRUE), Ignore(p.stream))
              [] first = 102 ->
                    ReadLiteral(<<97, 108, 115, 101>>, JsonBool(FALSE), Ignore(p.stream))
              [] first = 110 -> ReadLiteral(<<117, 108, 108>>, JsonNull, Ignore(p.stream))
              [] first = 45 \/ IsDigit(first) -> ExtractDouble(p.stream)
              [] OTHER -> Done("illegal first character", JsonNull, p.stream))

\* ------------------------------------------------------------------------
\* main: the descriptor read, make_gpt, write_gpt
\* ------------------------------------------------------------------------

VARIABLES pc, descriptor, data, what, file

\* a process that calls make_gpt several times: the calls made so far, each
\* with what it threw or returned
VARIABLE history

\* crc32 called on its own: the bytes given and the value returned
VARIABLES crc_input, crc_value

\* json_value::parse called on a document: where the caller is, the text of
\* the document, and what the call has done
VARIABLES json_pc, json_input, json_result

vars == <<pc, descriptor, data, what, file, history, crc_input, crc_value,
          json_pc, json_input, json_result>>

main_vars == <<pc, descriptor, data, what, file>>
calls_vars == <<history>>
crc_vars == <<crc_input, crc_value>>
json_vars == <<json_pc, json_input, json_result>>

NoData == [header |-> <<>>, footer |-> <<>>]
NoFile == [size |-> U64(0), writes |-> <<>>]

\* the parts of the state a specification does not use
MainIdle == pc = "" /\ descriptor = <<>> /\ data = NoData /\ what = "" /\ file = NoFile
CallsIdle == history = <<>>
CrcIdle == crc_input = <<>> /\ crc_value = <<>>
JsonIdle ==
    json_pc = "" /\ json_input = <<>> /\ json_result = Done("", JsonNull, StreamOf(<<>>))

Init ==
    /\ pc = "make_gpt"
    /\ descriptor \in Descriptors
    /\ data = NoData
    /\ what = ""
    /\ file = NoFile
    /\ CallsIdle /\ CrcIdle /\ JsonIdle

\* gpt_data data = make_gpt(descriptor): it returns, or it throws and main
\* reports the error and returns EXIT_FAILURE
MakeGpt ==
    /\ pc = "make_gpt"
    /\ \E r \in {make_gpt(descriptor)} :
          /\ what' = r.what
          /\ data' = r.data
          /\ pc' = IF r.what = "" THEN "write_gpt" ELSE "EXIT_FAILURE"
    /\ UNCHANGED <<descriptor, file, calls_vars, crc_vars, json_vars>>

\* write_gpt("gpt.bin", descriptor, data), and main returns
WriteGpt ==
    /\ pc = "write_gpt"
    /\ file' = write_gpt(descriptor, data)
    /\ pc' = "EXIT_SUCCESS"
    /\ UNCHANGED <<descriptor, data, what, calls_vars, crc_vars, json_vars>>

Next == MakeGpt \/ WriteGpt

Spec == Init /\ [][Next]_vars

\* ------------------------------------------------------------------------
\* make_gpt called several times by one process
\* ------------------------------------------------------------------------

\* the most calls made
MaxCalls == 3

\* descriptors of a disk of 8 blocks: accepted ones and rejected ones
CallDescriptors ==
    {[block_size |-> U64(bs), number_of_blocks |-> U64(8), disk_guid |-> DiskGuid,
      partitions |-> ps] :
        bs \in {512, 513},
        ps \in {<<>>, <<FreeEntry(3, 3)>>, <<FreeEntry(3, 4), FreeEntry(5, 5)>>,
                <<FreeEntry(3, 4), FreeEntry(4, 5)>>}}

CallsInit == history = <<>> /\ MainIdle /\ CrcIdle /\ JsonIdle

\* a call that still sees the partitions of the call before it
CallKeepingPartitions ==
    /\ Len(history) < MaxCalls
    /\ \E d \in CallDescriptors :
          LET kept == IF history = <<>> THEN <<>>
                      ELSE history[Len(history)].descriptor.partitions
          IN  history' = Append(history,
                  [descriptor |-> d,
                   result |-> make_gpt([d EXCEPT !.partitions = kept \o d.partitions])])
    /\ UNCHANGED <<main_vars, crc_vars, json_vars>>

\* one more call of make_gpt, on any descriptor: it reads its argument only
Call ==
    /\ Len(history) < MaxCalls
    /\ \E d \in CallDescriptors :
          history' = Append(history, [descriptor |-> d, result |-> make_gpt(d)])
    /\ UNCHANGED <<main_vars, crc_vars, json_vars>>

CallsNext == Call

SpecCalls == CallsInit /\ [][CallsNext]_vars

\* ------------------------------------------------------------------------
\* crc32 called on its own
\* ------------------------------------------------------------------------

\* the longest byte sequence tried, the check vector aside
MaxCrcLen == 3

\* "123456789"
CheckVector == <<49, 50, 51, 52, 53, 54, 55, 56, 57>>

CrcBytes == {0, 1, 2, 127, 128, 255}

CrcInputs == (UNION {[1..n -> CrcBytes] : n \in 0..MaxCrcLen}) \cup {CheckVector}

CrcInit ==
    crc_input \in CrcInputs /\ crc_value = <<>> /\ MainIdle /\ CallsIdle /\ JsonIdle

ComputeCrc ==
    /\ crc_value = <<>>
    /\ crc_value' = crc32(crc_input)
    /\ UNCHANGED <<crc_input, main_vars, calls_vars, json_vars>>

CrcNext == ComputeCrc

SpecCrc == CrcInit /\ [][CrcNext]_vars

\* ------------------------------------------------------------------------
\* json_value::parse called on a document
\* ------------------------------------------------------------------------

\* the most elements of an array and members of an object written out
MaxItems == 2

\* the most tokens of a document put together freely
MaxTokens == 3

\* the values without elements: null, true, 512, "k", [] and {}
JsonLeaves ==
    {JsonNull, JsonBool(TRUE), JsonNumber(512), JsonString(<<107>>),
     JsonArray(<<>>), JsonObject(<<>>, <<>>)}

\* the keys "a", "b", ... of the first n members
KeysOf(n) == [k \in 1..n |-> <<96 + k>>]

\* a leaf, an array of leaves, or an object of leaves
JsonValues ==
    JsonLeaves
        \cup {JsonArray(items) :
                 items \in UNION {[1..n -> JsonLeaves] : n \in 1..MaxItems}}
        \cup UNION {{JsonObject(KeysOf(n), items) : items \in [1..n -> JsonLeaves]} :
                       n \in 1..MaxItems}

RECURSIVE Digits(_)
\* a natural number in decimal
Digits(n) == IF n < 10 THEN <<48 + n>> ELSE Digits(n \div 10) \o <<48 + (n % 10)>>

RECURSIVE Serialize(_, _)
RECURSIVE SerializeItems(_, _, _)

\* the elements or members of v from the k-th on, a comma and `space` between
SerializeItems(v, k, space) ==
    IF k > Len(v.items) THEN <<>>
    ELSE (IF k > 1 THEN <<44>> \o space ELSE <<>>)
            \o (IF v.type = "object"
                    THEN <<34>> \o v.keys[k] \o <<34, 58>> \o space ELSE <<>>)
            \o Serialize(v.items[k], space)
            \o SerializeItems(v, k + 1, space)

\* the JSON text of a value
Serialize(v, space) ==
    CASE v.type = "null" -> <<110, 117, 108, 108>>
      [] v.type = "true" -> <<116, 114, 117, 101>>
      [] v.type = "false" -> <<102, 97, 108, 115, 101>>
      [] v.type = "number" -> Digits(v.number)
      [] v.type = "string" -> <<34>> \o v.text \o <<34>>
      [] v.type = "array" -> <<91>> \o SerializeItems(v, 1, space) \o <<93>>
      [] v.type = "object" -> <<123>> \o SerializeItems(v, 1, space) \o <<125>>

\* every value written out, without and with a space after ',' and ':'
Written ==
    {[text |-> Serialize(v, space), value |-> v] :
        v \in JsonValues, space \in {<<>>, <<32>>}}

\* [ ] { } , : space null 5 "k" "\n" "\ud83d\ude00" "\udc00"
Tokens ==
    {<<91>>, <<93>>, <<123>>, <<125>>, <<44>>, <<58>>, <<32>>,
     <<110, 117, 108, 108>>, <<53>>, <<34, 107, 34>>, <<34, 92, 110, 34>>,
     <<34, 92, 117, 100, 56, 51, 100, 92, 117, 100, 101, 48, 48, 34>>,
     <<34, 92, 117, 100, 99, 48, 48, 34>>}

RECURSIVE Flatten(_)
Flatten(texts) == IF texts = <<>> THEN <<>> ELSE Head(texts) \o Flatten(Tail(texts))

\* the arguments of the tests of CMakeLists: [null], [null and zoom
TestArguments ==
    {<<91, 110, 117, 108, 108, 93>>, <<91, 110, 117, 108, 108>>,
     <<122, 111, 111, 109>>}

\* what may follow a value of an array in place of ',' or ']': the end of
\* input, a space and the end, x, :], } and null]
ArrayTails ==
    {<<>>, <<32>>, <<120>>, <<58, 93>>, <<125>>, <<110, 117, 108, 108, 93>>}

\* an array whose first value, a value written out, is followed by none of
\* ',' and ']'
ArraysNotContinued ==
    {<<91>> \o lead \o w.text \o tail :
        lead \in {<<>>, <<32>>}, w \in Written, tail \in ArrayTails}

\* the documents tried: the values written out, every text of up to
\* MaxTokens tokens, the arguments of the tests and the arrays cut short
JsonDocuments ==
    {w.text : w \in Written}
        \cup {Flatten(t) : t \in UNION {[1..n -> Tokens] : n \in 0..MaxTokens}}
        \cup TestArguments
        \cup ArraysNotContinued

JsonInit ==
    /\ json_pc = "validate"
    /\ json_input \in JsonDocuments
    /\ json_result = Done("", JsonNull, StreamOf(<<>>))
    /\ MainIdle /\ CallsIdle /\ CrcIdle

\* std::stringstream ss(text); json_value::parse(ss): it returns, or it
\* throws and the caller reports the failure
validate ==
    /\ json_pc = "validate"
    /\ \E r \in {parse(StreamOf(json_input))} :
          /\ json_result' = r
          /\ json_pc' = IF r.what = "" THEN "EXIT_SUCCESS" ELSE "EXIT_FAILURE"
    /\ UNCHANGED <<json_input, main_vars, calls_vars, crc_vars>>

JsonNext == validate

SpecJson == JsonInit /\ [][JsonNext]_vars

\* ------------------------------------------------------------------------
\* Vocabulary of the properties
\* ------------------------------------------------------------------------

\* make_gpt has returned its blobs
Accepted == pc \in {"write_gpt", "EXIT_SUCCESS"}

\* the messages of the exceptions the validation throws
ValidationMessages ==
    {"Block size must be a non-zero multiple of 512!",
     "Must provide at least one partition!",
     "Too many partitions! (Like, waaaaaaay too many)",
     "Number of blocks too small!",
     "Starting LBA less than first usable LBA!",
     "Ending LBA greater than last usable LBA!",
     "Starting LBA is greater than ending LBA!",
     "Overlapping partitions!"}

\* make_gpt has thrown on a validation rule
Rejected == pc = "EXIT_FAILURE" /\ what \in ValidationMessages

N == Len(descriptor.partitions)

\* n bytes of a blob from byte offset `offset` on
Slice(blob, offset, n) == SubSeq(blob, offset + 1, offset + n)

\* the least number of blocks of m bytes that hold n bytes
BlocksNeeded(n, m) == CHOOSE k \in 0..n : k * m >= n /\ (k - 1) * m < n

\* the inclusive ranges of two partitions share a block
ShareBlock(p, q) ==
    Le(p.starting_lba, q.ending_lba) /\ Le(q.starting_lba, p.ending_lba)

\* the byte of the file at position pos: that of the last write covering it,
\* and zero where nothing was written
FileByte(f, pos) ==
    LET hits == {w \in 1..Len(f.writes) :
                    /\ Le(f.writes[w].at, pos)
                    /\ Lt(Sub(pos, f.writes[w].at), U64(Len(f.writes[w].bytes)))}
    IN  IF hits = {} THEN 0
        ELSE LET w == CHOOSE x \in hits : \A y \in hits : y <= x
             IN  f.writes[w].bytes[Value(Sub(pos, f.writes[w].at)) + 1]

\* n bytes of the file from position pos on
ReadFile(f, pos, n) == [k \in 1..n |-> FileByte(f, Add(pos, U64(k - 1)))]

\* "EFI PART"
EfiPart == <<69, 70, 73, 32, 80, 65, 82, 84>>

\* byte offsets of fields within a gpt_header
OffsetHeaderCrc32 == 16
OffsetMyLba == 24
OffsetPartitionEntryChecksum == 88

\* byte offset of partition_record[0].size_in_lba within the protective MBR
OffsetSizeInLba == 458

\* the bytes h are a GPT header that names lba as its own
IsHeaderAt(h, lba) ==
    Slice(h, 0, 8) = EfiPart /\ Slice(h, OffsetMyLba, 8) = lba

\* the 92 header bytes h carry the CRC-32 of themselves with the field zeroed
CrcRoundTrip(h) ==
    crc32(Slice(h, 0, OffsetHeaderCrc32) \o U32(0)
            \o Slice(h, OffsetHeaderCrc32 + 4, SizeofHeader - OffsetHeaderCrc32 - 4))
        = Slice(h, OffsetHeaderCrc32, 4)

\* the primary and the backup header as make_gpt stored them in the blobs
StoredPrimary == Slice(data.header, FirstHeaderOffset(descriptor), SizeofHeader)
StoredBackup == Slice(data.footer, SecondHeaderOffset(descriptor), SizeofHeader)

\* -------------------------------------------------------------------- C1
\* C1: in every descriptor make_gpt accepts, any two distinct partitions
\* have disjoint inclusive LBA ranges, whatever their order in the list.
C1_AcceptedPartitionsDisjoint ==
    Accepted =>
        \A i, j \in 1..N :
            i # j => ~ShareBlock(descriptor.partitions[i], descriptor.partitions[j])

\* -------------------------------------------------------------------- C2
\* C2: for every accepted descriptor, footer[0 .. 128 N) equals
\* header[2 block_size .. 2 block_size + 128 N) and the serialized entries,
\* also when the entry array spans more than one block.
C2_FooterEntriesEqualHeaderEntries ==
    Accepted =>
        /\ Slice(data.footer, 0, SizeofEntry * N)
             = Slice(data.header, 2 * Value(descriptor.block_size), SizeofEntry * N)
        /\ Slice(data.footer, 0, SizeofEntry * N) = as_bytes(descriptor.partitions)

\* -------------------------------------------------------------------- C3
\* C3: for every accepted descriptor the backup header lies at byte offset
\* partition_entry_blocks * block_size of the footer, and once write_gpt has
\* written the image it occupies LBA number_of_blocks - 1, its own my_lba.
C3_BackupHeaderAtLastLba ==
    pc = "EXIT_SUCCESS" =>
        LET bs == Value(descriptor.block_size)
            blocks == BlocksNeeded(SizeofEntry * N, bs)
            last == Sub(descriptor.number_of_blocks, U64(1))
        IN  /\ IsHeaderAt(Slice(data.footer, blocks * bs, SizeofHeader), last)
            /\ IsHeaderAt(ReadFile(file, Mul(last, descriptor.block_size), SizeofHeader),
                          last)

\* -------------------------------------------------------------------- C4
\* C4: for every accepted descriptor, the 92 bytes of the primary header in
\* the header blob and the 92 bytes of the backup header in the footer blob
\* each hold, in header_crc32, the CRC-32 of those 92 bytes with header_crc32
\* zeroed (no block padding).
C4_HeaderCrcRoundTrip ==
    Accepted => CrcRoundTrip(StoredPrimary) /\ CrcRoundTrip(StoredBackup)

\* a multi-block entry array, both headers with a non-zero CRC stored
C4_Witness ==
    /\ Accepted
    /\ N * SizeofEntry > Value(descriptor.block_size)
    /\ Slice(StoredPrimary, OffsetHeaderCrc32, 4) # U32(0)
    /\ Slice(StoredBackup, OffsetHeaderCrc32, 4) # U32(0)
    /\ Slice(StoredBackup, OffsetHeaderCrc32, 4) # Slice(StoredPrimary, OffsetHeaderCrc32, 4)

\* -------------------------------------------------------------------- C5
\* C5: for every accepted descriptor, partition_entry_checksum of the
\* primary header and of the backup header are equal and are the CRC-32 of
\* the 128 N bytes at offset 2 block_size of the header blob.
C5_PartitionEntryChecksum ==
    Accepted =>
        LET sum == crc32(Slice(data.header, 2 * Value(descriptor.block_size),
                               SizeofEntry * N))
        IN  /\ Slice(StoredPrimary, OffsetPartitionEntryChecksum, 4) = sum
            /\ Slice(StoredBackup, OffsetPartitionEntryChecksum, 4) = sum

\* accepted descriptors with entries that differ in every field
C5_Witness ==
    /\ Accepted
    /\ N >= 3
    /\ descriptor.partitions[N].partition_name # Zeros(36)
    /\ Slice(StoredPrimary, OffsetPartitionEntryChecksum, 4) # U32(0)

\* -------------------------------------------------------------------- C6
\* C6: for every accepted descriptor the header blob has exactly
\* (2 + partition_entry_blocks) * block_size bytes and the footer blob
\* (1 + partition_entry_blocks) * block_size, partition_entry_blocks being the
\* number of blocks needed for the 128 N bytes of entries.
C6_BlobSizes ==
    Accepted =>
        LET bs == Value(descriptor.block_size)
            blocks == BlocksNeeded(SizeofEntry * N, bs)
        IN  /\ Len(data.header) = (2 + blocks) * bs
            /\ Len(data.footer) = (1 + blocks) * bs

\* an accepted descriptor whose entries need two blocks
C6_Witness ==
    /\ Accepted
    /\ BlocksNeeded(SizeofEntry * N, Value(descriptor.block_size)) = 2
    /\ Len(data.header) = 4 * 512

\* -------------------------------------------------------------------- C7
\* C7: size_in_lba of the first record of the protective MBR is
\* number_of_blocks - 1 whenever that fits in 32 bits (number_of_blocks up to
\* 2^32 included), and 0x0FFFFFFF exactly when it does not.
C7_SizeInLba ==
    Accepted =>
        LET blocks == Sub(descriptor.number_of_blocks, U64(1))
            stored == Slice(data.header, OffsetSizeInLba, 4)
        IN  IF Le(blocks, UINT32_MAX) THEN stored = Trunc32(blocks)
            ELSE stored = <<255, 255, 255, 15>>

\* -------------------------------------------------------------------- C8
\* the quantities the rules are stated with, as make_gpt computes them
Peb == partition_entry_blocks(descriptor)
FirstUsable == Add(U64(2), Peb)
LastUsable == Sub(Sub(descriptor.number_of_blocks, Peb), U64(2))
MinBlocks == Add(Add(U64(3), Add(Peb, Peb)), U64(1))

Rule1Fails == descriptor.block_size = U64(0) \/ ModSmall(descriptor.block_size, 512) # 0
Rule2Fails == N = 0
Rule4Fails == Lt(descriptor.number_of_blocks, MinBlocks)

\* rule 5 on one partition, its three checks in order: the message, or ""
Rule5(p) ==
    IF Lt(p.starting_lba, FirstUsable) THEN "Starting LBA less than first usable LBA!"
    ELSE IF Gt(p.ending_lba, LastUsable) THEN "Ending LBA greater than last usable LBA!"
    ELSE IF Gt(p.starting_lba, p.ending_lba) THEN "Starting LBA is greater than ending LBA!"
    ELSE ""

\* x lies in the inclusive range of partition p
InRange(x, p) == Ge(x, p.starting_lba) /\ Le(x, p.ending_lba)

\* the overlap test of rule 6 on partitions at positions i < j
Rule6Fails(i, j) ==
    \/ InRange(descriptor.partitions[i].starting_lba, descriptor.partitions[j])
    \/ InRange(descriptor.partitions[i].ending_lba, descriptor.partitions[j])

\* the least element of a non-empty set of positions
Least(S) == CHOOSE m \in S : \A k \in S : m <= k

\* the first failing rule in the order 1, 2, 3, 4, 5 (every partition), 6:
\* its message, or "" (rule 3 cannot fail for the lists tried)
ListedOrderMessage ==
    IF Rule1Fails THEN "Block size must be a non-zero multiple of 512!"
    ELSE IF Rule2Fails THEN "Must provide at least one partition!"
    ELSE IF Rule4Fails THEN "Number of blocks too small!"
    ELSE LET bad == {i \in 1..N : Rule5(descriptor.partitions[i]) # ""}
         IN  IF bad # {} THEN Rule5(descriptor.partitions[Least(bad)])
             ELSE IF \E i, j \in 1..N : i < j /\ Rule6Fails(i, j)
                 THEN "Overlapping partitions!"
             ELSE ""

\* the first failing check in the order 1, 2, 3, 4, then partition by
\* partition: the rule-5 checks of partition i, then its overlap with every
\* later partition
InterleavedOrderMessage ==
    IF Rule1Fails THEN "Block size must be a non-zero multiple of 512!"
    ELSE IF Rule2Fails THEN "Must provide at least one partition!"
    ELSE IF Rule4Fails THEN "Number of blocks too small!"
    ELSE LET bad == {i \in 1..N :
                        \/ Rule5(descriptor.partitions[i]) # ""
                        \/ \E j \in 1..N : i < j /\ Rule6Fails(i, j)}
         IN  IF bad = {} THEN ""
             ELSE IF Rule5(descriptor.partitions[Least(bad)]) # ""
                 THEN Rule5(descriptor.partitions[Least(bad)])
             ELSE "Overlapping partitions!"

\* C8 (as claimed): a descriptor that violates several rules is reported with
\* the rule that comes first in the order 1, 2, 3, 4, 5, 6, the rule-5 checks
\* of every partition coming before any overlap check.
C8_ListedOrder ==
    pc # "make_gpt" /\ ListedOrderMessage # ""
        => pc = "EXIT_FAILURE" /\ what = ListedOrderMessage

\* C8 (amended): the first failing check is reported in the order 1, 2, 3, 4
\* and then partition by partition, the rule-5 checks of partition i followed
\* by its overlap check against every later partition; a descriptor that
\* fails no check is not rejected by the validation.
C8_InterleavedOrder ==
    pc # "make_gpt" =>
        IF InterleavedOrderMessage # ""
            THEN pc = "EXIT_FAILURE" /\ what = InterleavedOrderMessage
        ELSE what \notin ValidationMessages

\* partition 1 overlaps partition 2, which also breaks a rule-5 bound: the
\* overlap is what is reported
C8_Witness ==
    /\ Rejected
    /\ ~Rule1Fails /\ ~Rule2Fails /\ ~Rule4Fails
    /\ N >= 2
    /\ Rule5(descriptor.partitions[1]) = ""
    /\ Rule5(descriptor.partitions[2]) # ""
    /\ Rule6Fails(1, 2)
    /\ what = "Overlapping partitions!"

\* -------------------------------------------------------------------- C9
\* C9: with a valid block_size and a non-empty partition list, make_gpt
\* throws "Number of blocks too small!" if and only if number_of_blocks <
\* 3 + 2 partition_entry_blocks + 1.
C9_NumberOfBlocksTooSmall ==
    pc # "make_gpt" /\ ~Rule1Fails /\ ~Rule2Fails =>
        (what = "Number of blocks too small!"
            <=> Lt(descriptor.number_of_blocks, MinBlocks))

\* number_of_blocks = 3 + 2 partition_entry_blocks, two blocks of entries
C9_Witness ==
    /\ pc = "EXIT_FAILURE"
    /\ what = "Number of blocks too small!"
    /\ Peb = U64(2)
    /\ descriptor.number_of_blocks = U64(7)

\* -------------------------------------------------------------------- C10
\* C10: for a descriptor passing rules 1-4, a partition with starting_lba <
\* first_usable_lba, ending_lba > last_usable_lba or starting_lba > ending_lba
\* makes make_gpt reject it, and a single partition from first_usable_lba to
\* last_usable_lba (both bounds inclusive) is not rejected: the blobs are
\* returned (unless they are too large for a vector to be created).
C10_PartitionBounds ==
    pc # "make_gpt" /\ ~Rule1Fails /\ ~Rule2Fails /\ ~Rule4Fails =>
        /\ (\E i \in 1..N : Rule5(descriptor.partitions[i]) # "") => Rejected
        /\ ( /\ N = 1
             /\ descriptor.partitions[1].starting_lba = FirstUsable
             /\ descriptor.partitions[1].ending_lba = LastUsable )
           => /\ what \notin ValidationMessages
              /\ Le(descriptor.block_size, U64(1024)) => Accepted

\* the single partition [first_usable_lba, last_usable_lba], accepted
C10_Witness ==
    /\ Accepted
    /\ N = 1
    /\ descriptor.partitions[1].starting_lba = FirstUsable
    /\ descriptor.partitions[1].ending_lba = LastUsable
    /\ Lt(FirstUsable, LastUsable)

\* -------------------------------------------------------------------- C11
\* a word that is a positive multiple of 512: its low nine bits are zero
PositiveMultipleOf512(w) == w # U64(0) /\ w[1] = 0 /\ w[2] % 2 = 0

\* C11: make_gpt throws the block-size error for every descriptor whose
\* block_size is 0 or not a multiple of 512, whatever its other fields, and
\* the empty-list error for every descriptor with a valid block_size and no
\* partition; a block_size that is a positive multiple of 512 never gets the
\* block-size error.
C11_BlockSizeAndEmptyList ==
    pc # "make_gpt" =>
        /\ ~PositiveMultipleOf512(descriptor.block_size) =>
                Rejected /\ what = "Block size must be a non-zero multiple of 512!"
        /\ PositiveMultipleOf512(descriptor.block_size) /\ N = 0 =>
                Rejected /\ what = "Must provide at least one partition!"
        /\ PositiveMultipleOf512(descriptor.block_size) =>
                what # "Block size must be a non-zero multiple of 512!"

\* block_size 513 with otherwise acceptable fields, rejected
C11_Witness ==
    /\ Rejected
    /\ descriptor.block_size = U64(513)
    /\ N = 1
    /\ descriptor.partitions[1].starting_lba = U64(3)
    /\ descriptor.partitions[1].ending_lba = U64(3)
    /\ what = "Block size must be a non-zero multiple of 512!"

\* -------------------------------------------------------------------- C12
\* partitions p and q overlap partially, p beginning first
PartialOverlap(p, q) ==
    /\ Lt(p.starting_lba, q.starting_lba)
    /\ Le(q.starting_lba, p.ending_lba)
    /\ Lt(p.ending_lba, q.ending_lba)

\* C12: a descriptor that passes rules 1-5 is rejected with the overlap
\* error if and only if for some positions i < j the starting_lba or the
\* ending_lba of partition i lies in [j.starting_lba, j.ending_lba]; two
\* partitions that overlap partially are rejected in either list order.
C12_OverlapTest ==
    ( /\ pc # "make_gpt"
      /\ ~Rule1Fails /\ ~Rule2Fails /\ ~Rule4Fails
      /\ \A i \in 1..N : Rule5(descriptor.partitions[i]) = "" )
    => /\ what = "Overlapping partitions!"
            <=> \E i, j \in 1..N : i < j /\ Rule6Fails(i, j)
       /\ (\E i, j \in 1..N :
                i # j /\ PartialOverlap(descriptor.partitions[i], descriptor.partitions[j]))
            => Rejected /\ what = "Overlapping partitions!"

\* [4..5] listed before [3..4]: only the start of the first lies in the second
C12_Witness ==
    /\ Rejected
    /\ what = "Overlapping partitions!"
    /\ ~Rule1Fails /\ ~Rule2Fails /\ ~Rule4Fails
    /\ N = 2
    /\ \A i \in 1..N : Rule5(descriptor.partitions[i]) = ""
    /\ PartialOverlap(descriptor.partitions[2], descriptor.partitions[1])

\* -------------------------------------------------------------------- C13
\* byte k (counted from 0) lies in the n bytes placed at offset `at`
Within(k, at, n) == k >= at /\ k < at + n

\* C13: in both blobs of an accepted descriptor every byte outside the
\* placed records (protective MBR, the 92-byte header, the 128 N bytes of
\* entries) is zero, and the bytes from the end of each 92-byte header to
\* the end of the block that holds it are zero, in the header blob and in
\* the footer blob, for every N and block_size.
C13_ZeroOutsideRecords ==
    Accepted =>
        LET bs == Value(descriptor.block_size)
            primary == FirstHeaderOffset(descriptor)
            backup == SecondHeaderOffset(descriptor)
        IN  /\ \A k \in 0..(Len(data.header) - 1) :
                  ( /\ ~Within(k, 0, SizeofMbr)
                    /\ ~Within(k, primary, SizeofHeader)
                    /\ ~Within(k, 2 * bs, SizeofEntry * N) )
                  => data.header[k + 1] = 0
            /\ \A k \in 0..(Len(data.footer) - 1) :
                  ( /\ ~Within(k, 0, SizeofEntry * N)
                    /\ ~Within(k, backup, SizeofHeader) )
                  => data.footer[k + 1] = 0
            /\ \A k \in (primary + SizeofHeader)..(primary + bs - 1) :
                  data.header[k + 1] = 0
            /\ \A k \in (backup + SizeofHeader)..(backup + bs - 1) :
                  data.footer[k + 1] = 0

\* -------------------------------------------------------------------- C14
\* ceil(n / m) for n >= 1 bytes and a block size m given as a word
CeilBlocks(n, m) == IF Le(U64(n), m) THEN 1 ELSE BlocksNeeded(n, Value(m))

\* C14: the number of partition-entry blocks make_gpt computes is
\* ceil(128 N / block_size) for every N >= 1 and every block_size that is a
\* non-zero multiple of 512, also when 128 N + block_size - 1 exceeds the
\* range of std::size_t.
C14_PartitionEntryBlocksIsCeiling ==
    pc # "make_gpt" /\ ~Rule1Fails /\ N >= 1 =>
        Peb = U64(CeilBlocks(SizeofEntry * N, descriptor.block_size))

\* -------------------------------------------------------------------- C15
\* the bytes of field f in the 92 header bytes h
HeaderField(h, f) ==
    SubSeq(h, HeaderLayout[f][1] + 1, HeaderLayout[f][1] + HeaderLayout[f][2])

\* C15: in every accepted descriptor the headers mirror each other: my_lba
\* and alternate_lba are 1 and number_of_blocks - 1, swapped in the backup;
\* partition_entry_lba is 2 in the primary and number_of_blocks - 1 -
\* partition_entry_blocks in the backup; first_usable_lba and last_usable_lba
\* are 2 + partition_entry_blocks and number_of_blocks -
\* partition_entry_blocks - 2 in both; every other field except header_crc32
\* is the same in both (header_size 92, reserved 0, the disk_guid, N entries
\* of 128 bytes).
C15_HeadersMirror ==
    Accepted =>
        LET P == StoredPrimary
            B == StoredBackup
            blocks == U64(BlocksNeeded(SizeofEntry * N, Value(descriptor.block_size)))
            last == Sub(descriptor.number_of_blocks, U64(1))
        IN  /\ HeaderField(P, "my_lba") = U64(1)
            /\ HeaderField(B, "alternate_lba") = U64(1)
            /\ HeaderField(P, "alternate_lba") = last
            /\ HeaderField(B, "my_lba") = last
            /\ HeaderField(P, "partition_entry_lba") = U64(2)
            /\ HeaderField(B, "partition_entry_lba") = Sub(last, blocks)
            /\ \A h \in {P, B} :
                  /\ HeaderField(h, "first_usable_lba") = Add(U64(2), blocks)
                  /\ HeaderField(h, "last_usable_lba")
                        = Sub(Sub(descriptor.number_of_blocks, blocks), U64(2))
                  /\ HeaderField(h, "signature") = EfiPart
                  /\ HeaderField(h, "header_size") = U32(92)
                  /\ HeaderField(h, "reserved") = U32(0)
                  /\ HeaderField(h, "disk_guid") = descriptor.disk_guid
                  /\ HeaderField(h, "number_of_partition_entries") = U32(N)
                  /\ HeaderField(h, "size_of_partition_entry") = U32(128)
            /\ HeaderField(P, "revision") = HeaderField(B, "revision")
            /\ HeaderField(P, "partition_entry_checksum")
                  = HeaderField(B, "partition_entry_checksum")

\* two blocks of entries on a disk of 2^32 + 1 blocks: the backup's entries
\* begin at LBA 2^32 - 2
C15_Witness ==
    /\ Accepted
    /\ N = 6
    /\ descriptor.number_of_blocks = Add(UINT32_MAX, U64(2))
    /\ HeaderField(StoredBackup, "partition_entry_lba") = Sub(UINT32_MAX, U64(1))
    /\ HeaderField(StoredBackup, "my_lba") = Add(UINT32_MAX, U64(1))

Generator ==
    <<0, 0, 0, 0, 0, 1, 0, 0, 1, 1, 0, 0, 0, 0, 0, 1,
      0, 0, 0, 1, 1, 1, 0, 1, 1, 0, 1, 1, 0, 1, 1, 1>>

\* long division, one message bit: the remainder (coefficients of x^31 .. x^0)
\* after the bit is fed in
DivideBit(rem, bit) ==
    LET top == (rem[1] + bit) % 2
    IN  [i \in 1..32 |->
            ((IF i < 32 THEN rem[i + 1] ELSE 0) + (top * Generator[i])) % 2]

RECURSIVE DivideBits(_, _, _, _)
\* the remainder after bits lo..hi of message are fed in (bit n is bit n % 8
\* of byte n \div 8, so each byte goes least significant bit first); the range
\* is split in halves to keep the evaluation shallow
DivideBits(rem, message, lo, hi) ==
    IF lo > hi THEN rem
    ELSE IF lo = hi
    THEN DivideBit(rem, (message[(lo \div 8) + 1] \div (2 ^ (lo % 8))) % 2)
    ELSE LET mid == (lo + hi) \div 2
         IN  Let(DivideBits(rem, message, lo, mid),
                 LAMBDA r : DivideBits(r, message, mid + 1, hi))

\* the reference CRC-32: the remainder started at all ones, inverted, and
\* read with the coefficient of x^31 as the lowest bit, as four bytes
ReferenceCrc32(message) ==
    Let(DivideBits([i \in 1..32 |-> 1], message, 0, (8 * Len(message)) - 1),
        LAMBDA rem :
            [b \in 1..4 |->
                LET Bit(k) == (1 - rem[(8 * (b - 1)) + k + 1]) * (2 ^ k)
                IN  Bit(0) + Bit(1) + Bit(2) + Bit(3) + Bit(4) + Bit(5) + Bit(6) + Bit(7)])

\* C18: crc32 is the reflected CRC-32 (polynomial 0xEDB88320, accumulator
\* started at 0xFFFFFFFF, bytes taken least significant bit first, result
\* inverted): it agrees with the bit-by-bit reference on every input tried
\* and gives 0xCBF43926 on "123456789".
C18_Crc32IsReflectedCrc32 ==
    crc_value # <<>> =>
        /\ crc_value = ReferenceCrc32(crc_input)
        /\ crc_input = CheckVector => crc_value = <<38, 57, 244, 203>>

\* the check vector has been summed
C18_Witness == crc_input = CheckVector /\ crc_value = <<38, 57, 244, 203>>

\* -------------------------------------------------------------------- C19
\* C19: the header blob of an accepted descriptor begins with the 512-byte
\* protective MBR: bytes 0..445 zero; the first partition record with
\* boot_indicator 0, starting_chs {0x00, 0x02, 0x00}, os_type 0xEE, ending_chs
\* {0xFF, 0xFF, 0xFF}, starting_lba 1; the other three records zero; bytes
\* 510 and 511 0x55 and 0xAA. Bytes block_size .. block_size + 8 are
\* "EFI PART".
C19_ProtectiveMbrAndSignature ==
    Accepted =>
        /\ Slice(data.header, 0, 446) = Zeros(446)
        /\ Slice(data.header, 446, 12) = <<0, 0, 2, 0, 238, 255, 255, 255, 1, 0, 0, 0>>
        /\ Slice(data.header, 462, 48) = Zeros(48)
        /\ Slice(data.header, 510, 2) = <<85, 170>>
        /\ Slice(data.header, Value(descriptor.block_size), 8) = EfiPart

\* blocks of 1024 bytes: the header begins half a block after the MBR ends
C19_Witness ==
    /\ Accepted
    /\ descriptor.block_size = U64(1024)
    /\ Slice(data.header, 510, 2) = <<85, 170>>
    /\ Slice(data.header, 512, 512) = Zeros(512)
    /\ Slice(data.header, 1024, 8) = EfiPart

\* -------------------------------------------------------------------- C20
\* v is an empty array or object, or has one among its elements or members
HasEmpty(v) ==
    \/ v.type \in {"array", "object"} /\ v.items = <<>>
    \/ \E k \in 1..Len(v.items) :
          v.items[k].type \in {"array", "object"} /\ v.items[k].items = <<>>

\* C20: the parser supports empty arrays and empty objects: "[]" and "{}"
\* parse and their closing bracket is consumed, and a document with an empty
\* array or object among the elements of an array or the members of an
\* object parses, every element and member read as written.
C20_EmptyArraysAndObjects ==
    json_pc # "validate" =>
        \A w \in Written :
            HasEmpty(w.value) /\ w.text = json_input =>
                /\ json_pc = "EXIT_SUCCESS"
                /\ json_result.value = w.value
                /\ json_result.stream.pos = Len(json_input)


\* -------------------------------------------------------------------- C21
\* the characters json_value::parse takes as the start of a value
FirstCharacters == {123, 91, 34, 116, 102, 110, 45} \cup 48..57

\* the first character of text that is not whitespace is not the start of a
\* value
IllegalFirstCharacter(text) ==
    \E k \in 1..Len(text) :
        /\ \A j \in 1..(k - 1) : IsSpace(text[j])
        /\ ~IsSpace(text[k])
        /\ text[k] \notin FirstCharacters

\* C21: parse accepts the well-formed array [null]; it throws, and returns
\* no value, for every input whose first character after the whitespace
\* cannot start a value (zoom), and for every array in which a value is
\* followed by something other than ',' or ']', the end of input included
\* ([null).
C21_AcceptsAndRejects ==
    json_pc # "validate" =>
        /\ json_input = <<91, 110, 117, 108, 108, 93>> =>
              /\ json_pc = "EXIT_SUCCESS"
              /\ json_result.value = JsonArray(<<JsonNull>>)
        /\ IllegalFirstCharacter(json_input) => json_pc = "EXIT_FAILURE"
        /\ json_input \in ArraysNotContinued => json_pc = "EXIT_FAILURE"


\* -------------------------------------------------------------------- C22
\* the list with the partitions at a and b exchanged
Exchanged(partitions, a, b) ==
    [k \in 1..Len(partitions) |->
        IF k = a THEN partitions[b] ELSE IF k = b THEN partitions[a] ELSE partitions[k]]

\* make_gpt returns for d: no check throws and both buffers can be allocated
Accepts(d) ==
    /\ Validate(d) = ""
    /\ ~Gt(header_size(d), VECTOR_MAX_SIZE)
    /\ ~Gt(footer_size(d), VECTOR_MAX_SIZE)

\* C22: whether make_gpt accepts a descriptor does not depend on the order of
\* its partitions: the descriptor with any two partitions exchanged (the
\* exchanges generate every permutation) is accepted if and only if the
\* descriptor is.
C22_AcceptanceIgnoresOrder ==
    pc # "make_gpt" =>
        \A a, b \in 1..Len(descriptor.partitions) :
            a < b =>
                (Accepts([descriptor EXCEPT !.partitions = Exchanged(@, a, b)])
                    <=> Accepted)


\* -------------------------------------------------------------------- C23
\* the write of write_gpt covers exactly the blocks first .. last
WritesBlocks(write, first, last) ==
    /\ write.at = Mul(first, descriptor.block_size)
    /\ U64(Len(write.bytes))
          = Mul(Add(Sub(last, first), U64(1)), descriptor.block_size)

\* C23: for every accepted descriptor the regions of the disk are in order
\* and disjoint: first_usable_lba = 2 + partition_entry_blocks <=
\* last_usable_lba; the backup header's partition_entry_lba is
\* last_usable_lba + 1; write_gpt writes the header blob to the blocks
\* 0 .. 1 + partition_entry_blocks and the footer blob to the blocks
\* number_of_blocks - 1 - partition_entry_blocks .. number_of_blocks - 1, and
\* the header's blocks end before first_usable_lba and the footer's begin
\* after last_usable_lba; no subtraction goes below zero.
C23_RegionsInOrder ==
    Accepted =>
        LET first == HeaderField(StoredPrimary, "first_usable_lba")
            last == HeaderField(StoredPrimary, "last_usable_lba")
            headerEnd == Add(U64(1), Peb)
            footerStart == Sub(Sub(descriptor.number_of_blocks, U64(1)), Peb)
            footerEnd == Sub(descriptor.number_of_blocks, U64(1))
        IN  /\ Le(Add(Peb, U64(2)), descriptor.number_of_blocks)
            /\ first = Add(U64(2), Peb)
            /\ last = Sub(Sub(descriptor.number_of_blocks, Peb), U64(2))
            /\ Le(first, last)
            /\ HeaderField(StoredBackup, "partition_entry_lba") = Add(last, U64(1))
            /\ HeaderField(StoredBackup, "partition_entry_lba") = footerStart
            /\ Lt(headerEnd, first)
            /\ Lt(last, footerStart)
            /\ Le(footerStart, footerEnd)
            /\ pc = "EXIT_SUCCESS" =>
                  /\ Len(file.writes) = 2
                  /\ WritesBlocks(file.writes[1], U64(0), headerEnd)
                  /\ WritesBlocks(file.writes[2], footerStart, footerEnd)

\* the tightest accepted disk: 6 blocks of 512 bytes, one block of entries at
\* each end, the only usable block 3; the header blob goes to the blocks
\* 0 .. 2 and the footer blob to the blocks 4 .. 5
C23_Witness ==
    /\ pc = "EXIT_SUCCESS"
    /\ descriptor.number_of_blocks = U64(6)
    /\ HeaderField(StoredPrimary, "first_usable_lba") = U64(3)
    /\ HeaderField(StoredPrimary, "last_usable_lba") = U64(3)
    /\ file.writes[1].at = U64(0) /\ Len(file.writes[1].bytes) = 3 * 512
    /\ file.writes[2].at = U64(4 * 512) /\ Len(file.writes[2].bytes) = 2 * 512

====
